---- MODULE Spec2Model ----
(***************************************************************************)
(* Model of OmxVideoDecodeAccelerator                                      *)
(* (media/gpu/omx/omx_video_decode_accelerator.cc).                        *)
(*                                                                         *)
(* The adapter runs on one thread (the child task runner).  Every client   *)
(* call and every posted task is one atomic action.  The OMX component is  *)
(* the environment: it owns the buffers handed to it, acknowledges the     *)
(* commands it was sent in order, and returns all buffers of a port before *)
(* it reports that port flushed / disabled / idle.  Each engine event is   *)
(* modelled together with the task it posts to the child thread.           *)
(*                                                                         *)
(* DCHECKs are compiled out (release build); the preconditions that the    *)
(* client-facing DCHECKs of Flush and Reset state are client obligations   *)
(* and appear as guards of the client actions.                             *)
(***************************************************************************)
EXTENDS Integers, Sequences, FiniteSets, TLC

\* ---- bounds of the model -------------------------------------------------
InputBufferCount == 1    \* nBufferCountActual negotiated for the input port
MaxDecodes == 2          \* number of Decode calls of the client
MaxResets == 1           \* number of Reset calls of the client
MaxReuses == 1           \* number of ReusePictureBuffer calls

\* ---- program constants ---------------------------------------------------
kNumPictureBuffers == 8

\* bitstream buffer of Flush(): id -1, size 0
EOSBuffer == [id |-> -1, size |-> 0]
\* nTimeStamp of the EOS input header
kEOSTimeStamp == 0 - 2

InputHeaders == 1..InputBufferCount
FakeHeaders == {100 + i : i \in 1..kNumPictureBuffers}
\* picture buffer ids the client passes to ReusePictureBuffer
ReuseIds == {1}

SeqOfSet(S) ==
  LET RECURSIVE Build(_)
      Build(T) == IF T = {} THEN <<>>
                  ELSE LET m == CHOOSE x \in T : \A y \in T : x <= y
                       IN <<m>> \o Build(T \ {m})
  IN Build(S)

VARIABLES
  \* ---- fields of OmxVideoDecodeAccelerator
  current_state_change_,        \* CurrentStateChange
  client_state_,                \* OMX_STATETYPE mirror
  component_handle_,            \* TRUE iff non-NULL
  init_begun_,
  client_,                      \* TRUE iff the WeakPtr<Client> is valid
  free_input_buffers_,          \* std::queue of input headers
  input_buffers_at_component_,
  output_buffers_at_component_,
  fake_output_buffers_,         \* std::set of output headers
  pictures_,                    \* keys of the OutputPictureById map
  queued_bitstream_buffers_,    \* BitstreamBufferList
  queued_picture_buffer_ids_,
  picture_syncs_,               \* picture ids whose CheckPictureStatus task is posted
  \* ---- lifetime of the object
  deleted,                      \* the destructor has run
  self_owned,                   \* BusyLoopInDestroying task holds the unique_ptr
  crashed,                      \* a NULL WeakPtr was dereferenced
  \* ---- the OMX component
  omx_state,
  omx_commands,                 \* commands sent and not yet completed
  omx_input,                    \* input headers held by the component
  omx_output,                   \* output headers held by the component
  omx_buffers,                  \* headers registered and not freed
  omx_handle,                   \* the handle exists (OMX_GetHandle .. OMX_FreeHandle)
  omx_eos_pending,              \* an EOS input was consumed, EOS output is owed
  omx_settings_changed,         \* OMX_EventPortSettingsChanged was emitted
  omx_data_seen,                \* an input buffer with stream data was received
  \* ---- the client
  initialize_called,
  destroy_called,
  next_bitstream_id,
  provide_pending,              \* ProvidePictureBuffers not yet answered
  n_resets,
  \* ---- observations (history of client notifications and engine calls)
  errors_notified,              \* kinds passed to NotifyError, in order
  n_NotifyFlushDone,
  n_NotifyResetDone,
  n_NotifyInitializationComplete,
  n_ProvidePictureBuffers,
  n_PictureReady,
  ended,                        \* ids of NotifyEndOfBitstreamBuffer, in order
  submitted,                    \* nTimeStamp of OMX_EmptyThisBuffer calls, in order
  n_StopOnError,                \* calls of StopOnError (capped)
  n_eos_output,                 \* EOS-flagged outputs processed by FillBufferDoneTask
  init_ids,                     \* ids passed to Decode while INITIALIZING
  reset_mark,                   \* next_bitstream_id at the last Reset call
  reset_trace,                  \* acknowledgements processed since the last Reset
  reset_done,                   \* observation taken when NotifyResetDone is invoked
  omx_rejected,                 \* the component has been set to reject a call
  assigned,                     \* buffers.size() of the AssignPictureBuffers call, 0 before it
  destroyed_from,               \* current_state_change_, reset_trace and
                                \* input_buffers_at_component_ at the Destroy call
  n_ReusePictureBuffer,         \* calls of ReusePictureBuffer
  n_synced,                     \* fences whose IsSynced() returned true
  n_QueuePictureBuffer,         \* calls of QueuePictureBuffer
  n_FillThisBuffer              \* OMX_FillThisBuffer calls of QueuePictureBuffer

vars == << current_state_change_, client_state_, component_handle_, init_begun_,
           client_, free_input_buffers_, input_buffers_at_component_,
           output_buffers_at_component_, fake_output_buffers_, pictures_,
           queued_bitstream_buffers_, queued_picture_buffer_ids_, picture_syncs_,
           deleted, self_owned, crashed,
           omx_state, omx_commands, omx_input, omx_output, omx_buffers,
           omx_handle, omx_eos_pending, omx_settings_changed, omx_data_seen,
           initialize_called, destroy_called, next_bitstream_id, provide_pending,
           n_resets,
           errors_notified, n_NotifyFlushDone, n_NotifyResetDone,
           n_NotifyInitializationComplete, n_ProvidePictureBuffers, n_PictureReady,
           ended, submitted, n_StopOnError, n_eos_output, init_ids, reset_mark,
           reset_trace, reset_done, omx_rejected, assigned,
           destroyed_from, n_ReusePictureBuffer, n_synced,
           n_QueuePictureBuffer, n_FillThisBuffer >>

\* The whole state as one record: the handlers below are functions on it.
State ==
  [ current_state_change_ |-> current_state_change_,
    client_state_ |-> client_state_,
    component_handle_ |-> component_handle_,
    init_begun_ |-> init_begun_,
    client_ |-> client_,
    free_input_buffers_ |-> free_input_buffers_,
    input_buffers_at_component_ |-> input_buffers_at_component_,
    output_buffers_at_component_ |-> output_buffers_at_component_,
    fake_output_buffers_ |-> fake_output_buffers_,
    pictures_ |-> pictures_,
    queued_bitstream_buffers_ |-> queued_bitstream_buffers_,
    queued_picture_buffer_ids_ |-> queued_picture_buffer_ids_,
    picture_syncs_ |-> picture_syncs_,
    deleted |-> deleted,
    self_owned |-> self_owned,
    crashed |-> crashed,
    omx_state |-> omx_state,
    omx_commands |-> omx_commands,
    omx_input |-> omx_input,
    omx_output |-> omx_output,
    omx_buffers |-> omx_buffers,
    omx_handle |-> omx_handle,
    omx_eos_pending |-> omx_eos_pending,
    omx_settings_changed |-> omx_settings_changed,
    omx_data_seen |-> omx_data_seen,
    initialize_called |-> initialize_called,
    destroy_called |-> destroy_called,
    next_bitstream_id |-> next_bitstream_id,
    provide_pending |-> provide_pending,
    n_resets |-> n_resets,
    errors_notified |-> errors_notified,
    n_NotifyFlushDone |-> n_NotifyFlushDone,
    n_NotifyResetDone |-> n_NotifyResetDone,
    n_NotifyInitializationComplete |-> n_NotifyInitializationComplete,
    n_ProvidePictureBuffers |-> n_ProvidePictureBuffers,
    n_PictureReady |-> n_PictureReady,
    ended |-> ended,
    submitted |-> submitted,
    n_StopOnError |-> n_StopOnError,
    n_eos_output |-> n_eos_output,
    init_ids |-> init_ids,
    reset_mark |-> reset_mark,
    reset_trace |-> reset_trace,
    reset_done |-> reset_done,
    omx_rejected |-> omx_rejected,
    assigned |-> assigned,
    destroyed_from |-> destroyed_from,
    n_ReusePictureBuffer |-> n_ReusePictureBuffer,
    n_synced |-> n_synced,
    n_QueuePictureBuffer |-> n_QueuePictureBuffer,
    n_FillThisBuffer |-> n_FillThisBuffer,
    \* ---- inputs of the running task (set by the action, not kept)
    \* the first call into the component made by the task returns an error
    omx_fail_next |-> FALSE,
    \* number of SharedMemory::Map() calls of the task that succeed before
    \* one fails
    maps_ok |-> 0,
    \* what PictureSyncObject::IsSynced() returns to the task
    egl_synced |-> FALSE,
    \* headers whose OMX_FreeBuffer in FreeOMXBuffers returns an error
    free_fails |-> {} ]

NoResetDone == [valid |-> FALSE, in |-> 0, out |-> 0, trace |-> <<>>, mark |-> 0,
                nsub_entry |-> 0, nsub |-> 0, nend |-> 0, queued_entry |-> <<>>]

\* The histories of what the client was told and of what was submitted for
\* it describe the session of the client: they are kept while client_ is
\* valid and end with it.
Session(s, history, none) == IF s.client_ THEN history ELSE none

Apply(s) ==
  /\ current_state_change_' = s.current_state_change_
  /\ client_state_' = s.client_state_
  /\ component_handle_' = s.component_handle_
  /\ init_begun_' = s.init_begun_
  /\ client_' = s.client_
  /\ free_input_buffers_' = s.free_input_buffers_
  /\ input_buffers_at_component_' = s.input_buffers_at_component_
  /\ output_buffers_at_component_' = s.output_buffers_at_component_
  /\ fake_output_buffers_' = s.fake_output_buffers_
  /\ pictures_' = s.pictures_
  /\ queued_bitstream_buffers_' = s.queued_bitstream_buffers_
  /\ queued_picture_buffer_ids_' = s.queued_picture_buffer_ids_
  /\ picture_syncs_' = s.picture_syncs_
  /\ deleted' = s.deleted
  /\ self_owned' = s.self_owned
  /\ crashed' = s.crashed
  /\ omx_state' = s.omx_state
  /\ omx_commands' = s.omx_commands
  /\ omx_input' = s.omx_input
  /\ omx_output' = s.omx_output
  /\ omx_buffers' = s.omx_buffers
  /\ omx_handle' = s.omx_handle
  /\ omx_eos_pending' = s.omx_eos_pending
  /\ omx_settings_changed' = s.omx_settings_changed
  /\ omx_data_seen' = s.omx_data_seen
  /\ initialize_called' = s.initialize_called
  /\ destroy_called' = s.destroy_called
  /\ next_bitstream_id' = s.next_bitstream_id
  /\ provide_pending' = s.provide_pending
  /\ n_resets' = s.n_resets
  /\ errors_notified' = s.errors_notified
  /\ n_NotifyFlushDone' = s.n_NotifyFlushDone
  /\ n_NotifyResetDone' = s.n_NotifyResetDone
  /\ n_NotifyInitializationComplete' = s.n_NotifyInitializationComplete
  /\ n_ProvidePictureBuffers' = s.n_ProvidePictureBuffers
  /\ n_PictureReady' = s.n_PictureReady
  /\ ended' = Session(s, s.ended, <<>>)
  /\ submitted' = Session(s, s.submitted, <<>>)
  /\ n_StopOnError' = s.n_StopOnError
  /\ n_eos_output' = Session(s, s.n_eos_output, 0)
  /\ init_ids' = Session(s, s.init_ids, {})
  /\ reset_mark' = Session(s, s.reset_mark, 0)
  /\ reset_trace' = s.reset_trace
  /\ reset_done' = Session(s, s.reset_done, NoResetDone)
  /\ omx_rejected' = s.omx_rejected
  /\ assigned' = s.assigned
  /\ destroyed_from' = s.destroyed_from
  /\ n_ReusePictureBuffer' = s.n_ReusePictureBuffer
  /\ n_synced' = s.n_synced
  /\ n_QueuePictureBuffer' = s.n_QueuePictureBuffer
  /\ n_FillThisBuffer' = s.n_FillThisBuffer

NotDestroyed == [state |-> "", trace |-> <<>>, in |-> 0]

Init ==
  \* constructor, lines 126-152
  /\ current_state_change_ = "NO_TRANSITION"
  /\ client_state_ = "OMX_StateMax"
  /\ component_handle_ = FALSE
  /\ init_begun_ = FALSE
  /\ client_ = FALSE
  /\ free_input_buffers_ = <<>>
  /\ input_buffers_at_component_ = 0
  /\ output_buffers_at_component_ = 0
  /\ fake_output_buffers_ = {}
  /\ pictures_ = {}
  /\ queued_bitstream_buffers_ = <<>>
  /\ queued_picture_buffer_ids_ = <<>>
  /\ picture_syncs_ = <<>>
  /\ deleted = FALSE
  /\ self_owned = FALSE
  /\ crashed = FALSE
  /\ omx_state = "OMX_StateMax"
  /\ omx_commands = <<>>
  /\ omx_input = <<>>
  /\ omx_output = <<>>
  /\ omx_buffers = {}
  /\ omx_handle = FALSE
  /\ omx_eos_pending = FALSE
  /\ omx_settings_changed = FALSE
  /\ omx_data_seen = FALSE
  /\ initialize_called = FALSE
  /\ destroy_called = FALSE
  /\ next_bitstream_id = 1
  /\ provide_pending = FALSE
  /\ n_resets = 0
  /\ errors_notified = <<>>
  /\ n_NotifyFlushDone = 0
  /\ n_NotifyResetDone = 0
  /\ n_NotifyInitializationComplete = 0
  /\ n_ProvidePictureBuffers = 0
  /\ n_PictureReady = 0
  /\ ended = <<>>
  /\ submitted = <<>>
  /\ n_StopOnError = 0
  /\ n_eos_output = 0
  /\ init_ids = {}
  /\ reset_mark = 0
  /\ reset_trace = <<>>
  /\ reset_done = NoResetDone
  /\ omx_rejected = FALSE
  /\ assigned = 0
  /\ destroyed_from = NotDestroyed
  /\ n_ReusePictureBuffer = 0
  /\ n_synced = 0
  /\ n_QueuePictureBuffer = 0
  /\ n_FillThisBuffer = 0

\* ---- helpers -------------------------------------------------------------

Alive == ~deleted /\ ~crashed

\* OMX_SendCommand: the component queues the command and completes it later.
OMX_SendCommand(s, cmd, arg) ==
  [s EXCEPT !.omx_commands = Append(@, <<cmd, arg>>)]

\* OMX_FreeBuffer: the header is no longer registered (nor held).
OMX_FreeBuffer(s, hdr) ==
  [s EXCEPT !.omx_buffers = @ \ {hdr},
            !.omx_output = SelectSeq(@, LAMBDA h : h # hdr),
            !.omx_input = SelectSeq(@, LAMBDA e : e.hdr # hdr)]

CanFillBuffer(s) ==
  /\ s.current_state_change_ \notin {"DESTROYING", "ERRORING", "RESETTING"}
  /\ s.client_state_ \in {"OMX_StateIdle", "OMX_StateExecuting", "OMX_StatePause"}

\* The call into the component that was set to fail returns an error.
Failed(s) == [s EXCEPT !.omx_fail_next = FALSE, !.omx_rejected = TRUE]

RECURSIVE StopOnError(_, _)

BeginTransitionToState(s, new_state) ==
  IF s.current_state_change_ = "ERRORING" THEN s
  ELSE IF s.omx_fail_next THEN StopOnError(Failed(s), "PLATFORM_FAILURE")
  ELSE OMX_SendCommand(s, "OMX_CommandStateSet", new_state)

\* StopOnError without client_ptr_factory_->InvalidateWeakPtrs()
StopOnError_NoInvalidate(s, error) ==
  LET c == [s EXCEPT !.n_StopOnError = IF @ < 2 THEN @ + 1 ELSE @] IN
  IF c.current_state_change_ = "ERRORING" THEN c
  ELSE LET n == IF c.client_ /\ c.init_begun_
                THEN [c EXCEPT !.errors_notified = Append(@, error)]
                ELSE c
       IN IF n.client_state_ \in {"OMX_StateInvalid", "OMX_StateMax"} THEN n
          ELSE [BeginTransitionToState(n, "OMX_StateInvalid")
                  EXCEPT !.current_state_change_ = "ERRORING"]

\* StopOnError that does not record ERRORING in current_state_change_
StopOnError_StateNotSet(s, error) ==
  LET c == [s EXCEPT !.n_StopOnError = IF @ < 2 THEN @ + 1 ELSE @] IN
  IF c.current_state_change_ = "ERRORING" THEN c
  ELSE LET n == IF c.client_ /\ c.init_begun_
                THEN [c EXCEPT !.errors_notified = Append(@, error)]
                ELSE c
           i == [n EXCEPT !.client_ = FALSE]
       IN IF i.client_state_ \in {"OMX_StateInvalid", "OMX_StateMax"} THEN i
          ELSE BeginTransitionToState(i, "OMX_StateInvalid")

StopOnError(s, error) ==
  LET c == [s EXCEPT !.n_StopOnError = IF @ < 2 THEN @ + 1 ELSE @] IN
  IF c.current_state_change_ = "ERRORING" THEN c
  ELSE LET n == IF c.client_ /\ c.init_begun_
                THEN [c EXCEPT !.errors_notified = Append(@, error)]
                ELSE c
           i == [n EXCEPT !.client_ = FALSE]
       IN IF i.client_state_ \in {"OMX_StateInvalid", "OMX_StateMax"} THEN i
          ELSE [BeginTransitionToState(i, "OMX_StateInvalid")
                  EXCEPT !.current_state_change_ = "ERRORING"]

SendCommandToPort(s, cmd, port_index) ==
  IF s.omx_fail_next THEN StopOnError(Failed(s), "PLATFORM_FAILURE")
  ELSE OMX_SendCommand(s, cmd, port_index)

\* OMX_EmptyThisBuffer followed by input_buffers_at_component_++
EmptyThisBuffer(s, hdr, timestamp, eos) ==
  IF s.omx_fail_next THEN StopOnError(Failed(s), "PLATFORM_FAILURE") ELSE
  [s EXCEPT !.omx_input = Append(@, [hdr |-> hdr, id |-> timestamp, eos |-> eos]),
            !.omx_data_seen = @ \/ ~eos,
            !.submitted = Append(@, timestamp),
            !.input_buffers_at_component_ = @ + 1]

\* Decode that does not hold a bitstream buffer back during a Reset
Decode_NotHeldInReset(s, bitstream_buffer) ==
  IF \/ s.current_state_change_ = "INITIALIZING"
     \/ s.queued_bitstream_buffers_ # <<>>
     \/ s.free_input_buffers_ = <<>>
  THEN [s EXCEPT !.queued_bitstream_buffers_ = Append(@, bitstream_buffer)]
  ELSE IF ~(/\ s.current_state_change_ \in {"NO_TRANSITION", "FLUSHING", "RESETTING"}
            /\ s.client_state_ \in {"OMX_StateIdle", "OMX_StateExecuting",
                                    "OMX_StatePause"})
  THEN StopOnError(s, "ILLEGAL_STATE")
  ELSE LET omx_buffer == Head(s.free_input_buffers_)
           p == [s EXCEPT !.free_input_buffers_ = Tail(@)]
       IN IF bitstream_buffer.id = -1 /\ bitstream_buffer.size = 0
          THEN EmptyThisBuffer(p, omx_buffer, kEOSTimeStamp, TRUE)
          ELSE IF p.maps_ok = 0
          THEN StopOnError(p, "UNREADABLE_INPUT")
          ELSE EmptyThisBuffer([p EXCEPT !.maps_ok = @ - 1],
                               omx_buffer, bitstream_buffer.id, FALSE)

\* Decode that submits a bitstream buffer at once although earlier ones are
\* still queued
Decode_Overtakes(s, bitstream_buffer) ==
  IF \/ s.current_state_change_ \in {"RESETTING", "INITIALIZING"}
     \/ s.free_input_buffers_ = <<>>
  THEN [s EXCEPT !.queued_bitstream_buffers_ = Append(@, bitstream_buffer)]
  ELSE IF ~(/\ s.current_state_change_ \in {"NO_TRANSITION", "FLUSHING"}
            /\ s.client_state_ \in {"OMX_StateIdle", "OMX_StateExecuting"})
  THEN StopOnError(s, "ILLEGAL_STATE")
  ELSE LET omx_buffer == Head(s.free_input_buffers_)
           p == [s EXCEPT !.free_input_buffers_ = Tail(@)]
       IN IF bitstream_buffer.id = -1 /\ bitstream_buffer.size = 0
          THEN EmptyThisBuffer(p, omx_buffer, kEOSTimeStamp, TRUE)
          ELSE IF p.maps_ok = 0
          THEN StopOnError(p, "UNREADABLE_INPUT")
          ELSE EmptyThisBuffer([p EXCEPT !.maps_ok = @ - 1],
                               omx_buffer, bitstream_buffer.id, FALSE)

Decode(s, bitstream_buffer) ==
  IF \/ s.current_state_change_ \in {"RESETTING", "INITIALIZING"}
     \/ s.queued_bitstream_buffers_ # <<>>
     \/ s.free_input_buffers_ = <<>>
  THEN [s EXCEPT !.queued_bitstream_buffers_ = Append(@, bitstream_buffer)]
  ELSE IF ~(/\ s.current_state_change_ \in {"NO_TRANSITION", "FLUSHING"}
            /\ s.client_state_ \in {"OMX_StateIdle", "OMX_StateExecuting"})
  THEN StopOnError(s, "ILLEGAL_STATE")
  ELSE LET omx_buffer == Head(s.free_input_buffers_)
           p == [s EXCEPT !.free_input_buffers_ = Tail(@)]
       IN IF bitstream_buffer.id = -1 /\ bitstream_buffer.size = 0
          THEN EmptyThisBuffer(p, omx_buffer, kEOSTimeStamp, TRUE)
          ELSE IF p.maps_ok = 0
          THEN StopOnError(p, "UNREADABLE_INPUT")
          ELSE EmptyThisBuffer([p EXCEPT !.maps_ok = @ - 1],
                               omx_buffer, bitstream_buffer.id, FALSE)

RECURSIVE DecodeEach(_, _)
DecodeEach(s, buffers) ==
  IF buffers = <<>> THEN s
  ELSE DecodeEach(Decode(s, Head(buffers)), Tail(buffers))

\* DecodeQueuedBitstreamBuffers re-issuing the queued buffers newest first
DecodeQueuedBitstreamBuffers_Reversed(s) ==
  LET buffers == s.queued_bitstream_buffers_
      reversed == [i \in 1..Len(buffers) |-> buffers[Len(buffers) + 1 - i]]
      c == [s EXCEPT !.queued_bitstream_buffers_ = <<>>]
  IN IF c.current_state_change_ \in {"DESTROYING", "ERRORING"} THEN c
     ELSE DecodeEach(c, reversed)

DecodeQueuedBitstreamBuffers(s) ==
  LET buffers == s.queued_bitstream_buffers_
      c == [s EXCEPT !.queued_bitstream_buffers_ = <<>>]
  IN IF c.current_state_change_ \in {"DESTROYING", "ERRORING"} THEN c
     ELSE DecodeEach(c, buffers)

\* header registered for picture buffer id p (AllocateOutputBuffers)
PictureHeader(p) == 200 + p

QueuePictureBuffer(q, picture_buffer_id) ==
  LET s == [q EXCEPT !.n_QueuePictureBuffer = @ + 1] IN
  IF s.current_state_change_ = "RESETTING"
  THEN [s EXCEPT !.queued_picture_buffer_ids_ = Append(@, picture_buffer_id)]
  ELSE IF ~CanFillBuffer(s) THEN s
  ELSE IF picture_buffer_id \notin s.pictures_
  THEN StopOnError(s, "INVALID_ARGUMENT")
  ELSE LET c == [s EXCEPT !.output_buffers_at_component_ = @ + 1] IN
       IF c.omx_fail_next THEN StopOnError(Failed(c), "PLATFORM_FAILURE")
       ELSE [c EXCEPT !.omx_output = Append(@, PictureHeader(picture_buffer_id)),
                      !.n_FillThisBuffer = @ + 1]

\* CheckPictureStatus that queues the buffer whatever the fence reports
CheckPictureStatus_NoWait(s, picture_buffer_id) ==
  QueuePictureBuffer(
    IF s.egl_synced THEN [s EXCEPT !.n_synced = @ + 1] ELSE s, picture_buffer_id)

\* An unsignaled fence posts the same task again (picture_syncs_ holds the
\* posted tasks); a signaled one queues the buffer.
CheckPictureStatus(s, picture_buffer_id) ==
  IF ~s.egl_synced
  THEN [s EXCEPT !.picture_syncs_ = Append(@, picture_buffer_id)]
  ELSE QueuePictureBuffer([s EXCEPT !.n_synced = @ + 1], picture_buffer_id)

\* ReusePictureBuffer creates the fence and polls it for the first time.
ReusePictureBuffer(s, picture_buffer_id) ==
  CheckPictureStatus([s EXCEPT !.n_ReusePictureBuffer = @ + 1], picture_buffer_id)

RECURSIVE ReuseEach(_, _)
ReuseEach(s, ids) ==
  IF ids = <<>> THEN s
  ELSE ReuseEach(ReusePictureBuffer(s, Head(ids)), Tail(ids))

OnReachedEOSInFlushing(s) ==
  LET c == [s EXCEPT !.current_state_change_ = "NO_TRANSITION"]
  IN IF c.client_ THEN [c EXCEPT !.n_NotifyFlushDone = @ + 1] ELSE c

FlushIOPorts(s) == SendCommandToPort(s, "OMX_CommandFlush", "input_port_")

\* InputPortFlushDone resuming at once, without flushing the output port
InputPortFlushDone_NoOutputFlush(s) ==
  BeginTransitionToState(s, "OMX_StateExecuting")

InputPortFlushDone(s) == SendCommandToPort(s, "OMX_CommandFlush", "output_port_")

OutputPortFlushDone(s) == BeginTransitionToState(s, "OMX_StateExecuting")

ShutdownComponent(s) ==
  [s EXCEPT !.omx_handle = FALSE,
            !.omx_state = "OMX_StateMax",
            !.omx_commands = <<>>,
            !.omx_input = <<>>,
            !.omx_output = <<>>,
            !.omx_eos_pending = FALSE,
            !.client_state_ = "OMX_StateMax",
            !.component_handle_ = FALSE]

\* OMX_FreeBuffer on each header; a failing call leaves its header registered.
RECURSIVE FreeEach(_, _)
FreeEach(s, hdrs) ==
  IF hdrs = <<>> THEN s
  ELSE IF s.omx_fail_next \/ Head(hdrs) \in s.free_fails
       THEN FreeEach(Failed(s), Tail(hdrs))
  ELSE FreeEach(OMX_FreeBuffer(s, Head(hdrs)), Tail(hdrs))

FreeOMXBuffers(s) ==
  LET hdrs == s.free_input_buffers_
                \o SeqOfSet({PictureHeader(p) : p \in s.pictures_})
                \o SeqOfSet(s.fake_output_buffers_)
      failure_seen == \/ s.omx_fail_next /\ hdrs # <<>>
                      \/ \E i \in 1..Len(hdrs) : hdrs[i] \in s.free_fails
      c == [FreeEach(s, hdrs) EXCEPT !.free_input_buffers_ = <<>>,
                                     !.pictures_ = {},
                                     !.fake_output_buffers_ = {},
                                     !.queued_picture_buffer_ids_ = <<>>]
  IN IF failure_seen THEN StopOnError(c, "PLATFORM_FAILURE") ELSE c

AllocateInputBuffers(s) ==
  [s EXCEPT !.omx_buffers = @ \cup InputHeaders,
            !.free_input_buffers_ = @ \o SeqOfSet(InputHeaders)]

AllocateFakeOutputBuffers(s) ==
  [s EXCEPT !.omx_buffers = @ \cup FakeHeaders,
            !.fake_output_buffers_ = @ \cup FakeHeaders]

\* pictures_ is iterated; one header is registered per entry.
AllocateOutputBuffers(s) ==
  [s EXCEPT !.omx_buffers = @ \cup {PictureHeader(p) : p \in s.pictures_}]

\* AllocateOutputBuffers() returns false when its first OMX_UseBuffer fails.
AllocateOutputBuffersFails(s) == s.omx_fail_next /\ s.pictures_ # {}

\* ---- state transitions ---------------------------------------------------

OnReachedIdleInInitializing(s) ==
  BeginTransitionToState([s EXCEPT !.client_state_ = "OMX_StateIdle"],
                         "OMX_StateExecuting")

\* OnReachedExecutingInInitializing that notifies the client without handing
\* the fake buffers to the component
OnReachedExecutingInInitializing_NoFill(s) ==
  LET a == [s EXCEPT !.client_state_ = "OMX_StateExecuting",
                     !.current_state_change_ = "NO_TRANSITION"]
  IN IF a.client_ THEN [a EXCEPT !.n_NotifyInitializationComplete = @ + 1]
     ELSE a

\* OMX_FillThisBuffer on every fake buffer, in the order of the std::set
OnReachedExecutingInInitializing(s) ==
  LET a == [s EXCEPT !.client_state_ = "OMX_StateExecuting",
                     !.current_state_change_ = "NO_TRANSITION"]
      f == [a EXCEPT !.omx_output = @ \o SeqOfSet(a.fake_output_buffers_),
                     !.output_buffers_at_component_ =
                         @ + Cardinality(a.fake_output_buffers_)]
  IN IF a.omx_fail_next /\ a.fake_output_buffers_ # {}
     \* the first OMX_FillThisBuffer fails: RETURN_ON_OMX_FAILURE
     THEN StopOnError(Failed(a), "PLATFORM_FAILURE")
     ELSE IF f.client_ THEN [f EXCEPT !.n_NotifyInitializationComplete = @ + 1]
     ELSE f

OnReachedPauseInResetting(s) ==
  FlushIOPorts([s EXCEPT !.client_state_ = "OMX_StatePause"])

OnReachedExecutingInResetting(s) ==
  LET a == [s EXCEPT !.client_state_ = "OMX_StateExecuting",
                     !.current_state_change_ = "NO_TRANSITION"]
  IN IF ~a.client_ THEN a
     ELSE LET d == DecodeQueuedBitstreamBuffers(a)
              r == ReuseEach(d, d.queued_picture_buffer_ids_)
              q == [r EXCEPT !.queued_picture_buffer_ids_ = <<>>]
          IN IF ~q.client_
             \* client_->NotifyResetDone() on a WeakPtr that StopOnError
             \* invalidated during the drain: NULL is dereferenced
             THEN [q EXCEPT !.crashed = TRUE]
             ELSE [q EXCEPT !.n_NotifyResetDone = @ + 1,
                            !.reset_done =
                               [valid |-> TRUE,
                                in |-> q.input_buffers_at_component_,
                                out |-> q.output_buffers_at_component_,
                                trace |-> q.reset_trace,
                                mark |-> q.reset_mark,
                                nsub_entry |-> Len(s.submitted),
                                nsub |-> Len(q.submitted),
                                nend |-> Len(q.ended),
                                queued_entry |-> s.queued_bitstream_buffers_]]

\* OnReachedIdleInDestroying without the call of FreeOMXBuffers
OnReachedIdleInDestroying_NoFree(s) ==
  BeginTransitionToState([s EXCEPT !.client_state_ = "OMX_StateIdle"],
                         "OMX_StateLoaded")

OnReachedIdleInDestroying(s) ==
  FreeOMXBuffers(
    BeginTransitionToState([s EXCEPT !.client_state_ = "OMX_StateIdle"],
                           "OMX_StateLoaded"))

OnReachedLoadedInDestroying(s) ==
  ShutdownComponent([s EXCEPT !.client_state_ = "OMX_StateLoaded",
                              !.current_state_change_ = "NO_TRANSITION"])

OnReachedInvalidInErroring(s) ==
  ShutdownComponent(FreeOMXBuffers([s EXCEPT !.client_state_ = "OMX_StateInvalid"]))

\* DispatchStateReached that runs the Reset handlers without looking at
\* current_state_change_
DispatchStateReached_ResetAnyState(s, reached) ==
  CASE reached = "OMX_StatePause" -> OnReachedPauseInResetting(s)
    [] reached = "OMX_StateExecuting" /\ s.current_state_change_ # "INITIALIZING" ->
         OnReachedExecutingInResetting(s)
    [] s.current_state_change_ = "INITIALIZING" /\ reached = "OMX_StateIdle" ->
         OnReachedIdleInInitializing(s)
    [] s.current_state_change_ = "INITIALIZING" /\ reached = "OMX_StateExecuting" ->
         OnReachedExecutingInInitializing(s)
    [] s.current_state_change_ = "DESTROYING" /\ reached = "OMX_StateIdle" ->
         OnReachedIdleInDestroying(s)
    [] s.current_state_change_ = "DESTROYING" /\ reached = "OMX_StateLoaded" ->
         OnReachedLoadedInDestroying(s)
    [] s.current_state_change_ = "ERRORING" /\ reached = "OMX_StateInvalid" ->
         OnReachedInvalidInErroring(s)
    [] OTHER -> s

\* NOTREACHED() only logs in a release build.
DispatchStateReached(s, reached) ==
  CASE s.current_state_change_ = "INITIALIZING" /\ reached = "OMX_StateIdle" ->
         OnReachedIdleInInitializing(s)
    [] s.current_state_change_ = "INITIALIZING" /\ reached = "OMX_StateExecuting" ->
         OnReachedExecutingInInitializing(s)
    [] s.current_state_change_ = "RESETTING" /\ reached = "OMX_StatePause" ->
         OnReachedPauseInResetting(s)
    [] s.current_state_change_ = "RESETTING" /\ reached = "OMX_StateExecuting" ->
         OnReachedExecutingInResetting(s)
    [] s.current_state_change_ = "DESTROYING" /\ reached = "OMX_StateIdle" ->
         OnReachedIdleInDestroying(s)
    [] s.current_state_change_ = "DESTROYING" /\ reached = "OMX_StateLoaded" ->
         OnReachedLoadedInDestroying(s)
    [] s.current_state_change_ = "ERRORING" /\ reached = "OMX_StateInvalid" ->
         OnReachedInvalidInErroring(s)
    [] /\ s.current_state_change_ = "DESTROYING"
       /\ reached \in {"OMX_StatePause", "OMX_StateExecuting"} -> s
    [] OTHER -> s

OnOutputPortDisabled(s) ==
  \* OMX_GetParameter
  IF s.omx_fail_next THEN StopOnError(Failed(s), "PLATFORM_FAILURE")
  ELSE IF s.client_
  THEN [s EXCEPT !.n_ProvidePictureBuffers = @ + 1, !.provide_pending = TRUE]
  ELSE s

OnOutputPortEnabled(s) ==
  IF s.current_state_change_ = "RESETTING"
  THEN [s EXCEPT !.queued_picture_buffer_ids_ = @ \o SeqOfSet(s.pictures_)]
  ELSE IF ~CanFillBuffer(s) THEN StopOnError(s, "ILLEGAL_STATE")
  ELSE IF s.omx_fail_next /\ s.pictures_ # {}
  THEN StopOnError([Failed(s) EXCEPT !.output_buffers_at_component_ = @ + 1],
                   "PLATFORM_FAILURE")
  ELSE [s EXCEPT !.output_buffers_at_component_ = @ + Cardinality(s.pictures_),
                 !.omx_output =
                    @ \o SeqOfSet({PictureHeader(p) : p \in s.pictures_})]

\* FillBufferDoneTask without --output_buffers_at_component_
FillBufferDoneTask_NoDecrement(s, buffer, eos) ==
  LET a == s IN
  IF a.current_state_change_ \in {"DESTROYING", "ERRORING"} THEN a
  ELSE IF buffer \in a.fake_output_buffers_
  THEN LET e == [a EXCEPT !.fake_output_buffers_ = @ \ {buffer}] IN
       IF e.omx_fail_next THEN StopOnError(Failed(e), "PLATFORM_FAILURE")
       ELSE OMX_FreeBuffer(e, buffer)
  ELSE IF eos
  THEN ReusePictureBuffer(OnReachedEOSInFlushing(a), buffer - 200)
  ELSE IF a.current_state_change_ = "RESETTING"
  THEN [a EXCEPT !.queued_picture_buffer_ids_ = Append(@, buffer - 200)]
  ELSE IF a.client_ THEN [a EXCEPT !.n_PictureReady = @ + 1] ELSE a

FillBufferDoneTask(s, buffer, eos) ==
  LET a == [s EXCEPT !.output_buffers_at_component_ = @ - 1] IN
  IF a.current_state_change_ \in {"DESTROYING", "ERRORING"} THEN a
  ELSE IF buffer \in a.fake_output_buffers_
  THEN LET e == [a EXCEPT !.fake_output_buffers_ = @ \ {buffer}] IN
       IF e.omx_fail_next THEN StopOnError(Failed(e), "PLATFORM_FAILURE")
       ELSE OMX_FreeBuffer(e, buffer)
  ELSE IF eos
  THEN ReusePictureBuffer(OnReachedEOSInFlushing(a), buffer - 200)
  ELSE IF a.current_state_change_ = "RESETTING"
  THEN [a EXCEPT !.queued_picture_buffer_ids_ = Append(@, buffer - 200)]
  ELSE IF a.client_ THEN [a EXCEPT !.n_PictureReady = @ + 1] ELSE a

\* EmptyBufferDoneTask that does not put the header back on the free list
EmptyBufferDoneTask_NoPush(s, buffer) ==
  LET a == [s EXCEPT !.input_buffers_at_component_ = @ - 1]
  IN IF buffer.eos THEN a
     ELSE DecodeQueuedBitstreamBuffers(
            IF a.client_ THEN [a EXCEPT !.ended = Append(@, buffer.id)] ELSE a)

EmptyBufferDoneTask(s, buffer) ==
  LET a == [s EXCEPT !.free_input_buffers_ = Append(@, buffer.hdr),
                     !.input_buffers_at_component_ = @ - 1]
  IN IF buffer.eos THEN a
     ELSE DecodeQueuedBitstreamBuffers(
            IF a.client_ THEN [a EXCEPT !.ended = Append(@, buffer.id)] ELSE a)

EventHandlerCompleteTask(s, event, data1, data2) ==
  CASE event = "OMX_EventCmdComplete" /\ data1 = "OMX_CommandPortDisable" ->
         OnOutputPortDisabled(s)
    [] event = "OMX_EventCmdComplete" /\ data1 = "OMX_CommandPortEnable" ->
         OnOutputPortEnabled(s)
    [] event = "OMX_EventCmdComplete" /\ data1 = "OMX_CommandStateSet" ->
         DispatchStateReached(s, data2)
    [] event = "OMX_EventCmdComplete" /\ data1 = "OMX_CommandFlush" ->
         IF s.current_state_change_ \in {"DESTROYING", "ERRORING"} THEN s
         ELSE IF data2 = "input_port_" THEN InputPortFlushDone(s)
         ELSE OutputPortFlushDone(s)
    [] event = "OMX_EventError" ->
         IF s.current_state_change_ \notin {"DESTROYING", "ERRORING"}
         THEN StopOnError(s, "PLATFORM_FAILURE")
         ELSE s
    [] event = "OMX_EventPortSettingsChanged" ->
         IF data1 = "output_port_" /\ data2 = "OMX_IndexParamPortDefinition"
         THEN SendCommandToPort(s, "OMX_CommandPortDisable", "output_port_")
         ELSE StopOnError(s, "PLATFORM_FAILURE")
    [] OTHER -> StopOnError(s, "PLATFORM_FAILURE")

\* ---- client-facing API ---------------------------------------------------

CreateComponent(s) ==
  [s EXCEPT !.component_handle_ = TRUE,
            !.client_state_ = "OMX_StateLoaded",
            !.omx_handle = TRUE,
            !.omx_state = "OMX_StateLoaded"]

Initialize(s) ==
  LET c == CreateComponent([s EXCEPT !.client_ = TRUE])
      b == BeginTransitionToState(
             [c EXCEPT !.current_state_change_ = "INITIALIZING"], "OMX_StateIdle")
  IN [AllocateFakeOutputBuffers(AllocateInputBuffers(b)) EXCEPT !.init_begun_ = TRUE]

\* AssignPictureBuffers without the check of buffers.size()
AssignPictureBuffers_NoCountCheck(s, buffers) ==
  IF s.current_state_change_ \in {"RESETTING", "DESTROYING", "ERRORING"} THEN s
  ELSE IF ~CanFillBuffer(s) THEN StopOnError(s, "ILLEGAL_STATE")
  ELSE IF AllocateOutputBuffersFails(s)
  THEN StopOnError(Failed(s), "PLATFORM_FAILURE")
  ELSE SendCommandToPort(AllocateOutputBuffers(s),
                         "OMX_CommandPortEnable", "output_port_")

AssignPictureBuffers(s, buffers) ==
  IF s.current_state_change_ \in {"RESETTING", "DESTROYING", "ERRORING"} THEN s
  ELSE IF ~CanFillBuffer(s) THEN StopOnError(s, "ILLEGAL_STATE")
  ELSE IF kNumPictureBuffers # buffers THEN StopOnError(s, "INVALID_ARGUMENT")
  \* the loop that inserted the buffers into pictures_ is commented out
  ELSE IF AllocateOutputBuffersFails(s)
  THEN StopOnError(Failed(s), "PLATFORM_FAILURE")
  ELSE SendCommandToPort(AllocateOutputBuffers(s),
                         "OMX_CommandPortEnable", "output_port_")

Flush(s) ==
  Decode([s EXCEPT !.current_state_change_ = "FLUSHING"], EOSBuffer)

Reset(s) ==
  BeginTransitionToState([s EXCEPT !.current_state_change_ = "RESETTING"],
                         "OMX_StatePause")

\* The unique_ptr |self| is dropped (and the object deleted) when the
\* function returns without re-posting itself.
BusyLoopInDestroying(s) ==
  IF ~s.component_handle_
  THEN [s EXCEPT !.deleted = TRUE, !.self_owned = FALSE]
  ELSE [s EXCEPT !.self_owned = TRUE]

\* Destroy without client_ptr_factory_->InvalidateWeakPtrs()
Destroy_NoInvalidate(s) ==
  IF s.current_state_change_ \in {"ERRORING", "DESTROYING"}
  THEN [s EXCEPT !.deleted = TRUE]
  ELSE IF s.client_state_ = "OMX_StateMax"
  THEN [s EXCEPT !.deleted = TRUE]
  ELSE IF s.client_state_ \in {"OMX_StateInvalid", "OMX_StateLoaded"}
  THEN [ShutdownComponent(s) EXCEPT !.deleted = TRUE]
  ELSE BusyLoopInDestroying(
         BeginTransitionToState(
           [s EXCEPT !.current_state_change_ = "DESTROYING"], "OMX_StateIdle"))

\* |deleter| deletes the object on every return that does not move it into
\* BusyLoopInDestroying.
Destroy(s) ==
  LET i == [s EXCEPT !.client_ = FALSE] IN
  IF i.current_state_change_ \in {"ERRORING", "DESTROYING"}
  THEN [i EXCEPT !.deleted = TRUE]
  ELSE IF i.client_state_ = "OMX_StateMax"
  THEN [i EXCEPT !.deleted = TRUE]
  ELSE IF i.client_state_ \in {"OMX_StateInvalid", "OMX_StateLoaded"}
  THEN [ShutdownComponent(i) EXCEPT !.deleted = TRUE]
  ELSE BusyLoopInDestroying(
         BeginTransitionToState(
           [i EXCEPT !.current_state_change_ = "DESTROYING"], "OMX_StateIdle"))

\* ---- the OMX component ---------------------------------------------------

\* The component completes the oldest command once the buffers it has to
\* give back for it have been returned (and, for Idle -> Loaded, freed).
CommandReady(cmd) ==
  CASE cmd = <<"OMX_CommandStateSet", "OMX_StateIdle">> ->
         omx_state \in {"OMX_StateExecuting", "OMX_StatePause"}
            => (omx_input = <<>> /\ omx_output = <<>>)
    [] cmd = <<"OMX_CommandStateSet", "OMX_StateLoaded">> -> omx_buffers = {}
    [] cmd = <<"OMX_CommandFlush", "input_port_">> -> omx_input = <<>>
    [] cmd = <<"OMX_CommandFlush", "output_port_">> -> omx_output = <<>>
    [] cmd = <<"OMX_CommandPortDisable", "output_port_">> -> omx_output = <<>>
    [] OTHER -> TRUE

\* The oldest command makes the component give back its output buffers.
OutputReturnForced ==
  /\ omx_commands # <<>>
  /\ Head(omx_commands) \in {<<"OMX_CommandStateSet", "OMX_StateIdle">>,
                             <<"OMX_CommandFlush", "output_port_">>,
                             <<"OMX_CommandPortDisable", "output_port_">>}

CommandCompleted(s) ==
  LET cmd == Head(s.omx_commands) IN
  [s EXCEPT !.omx_commands = Tail(@),
            !.omx_state = IF cmd[1] = "OMX_CommandStateSet" THEN cmd[2] ELSE @,
            !.reset_trace = IF cmd[1] \in {"OMX_CommandStateSet", "OMX_CommandFlush"}
                            THEN Append(@, cmd[2]) ELSE @]

\* ---- inputs of a task ----------------------------------------------------

\* The state s is the outcome of a task.  A rejection that was set for the
\* task and met no call into the component is the same task without it.
Run(s) == ~s.omx_fail_next /\ Apply(s)

\* whether the component rejects the first call the task makes into it
Rejections == IF omx_handle THEN BOOLEAN ELSE {FALSE}

\* outcomes of the Map() calls of a task that maps at most n buffers: the
\* number of calls that succeed before one fails (n: none fails)
MapOutcomes(n) == 0..n

Min(a, b) == IF a < b THEN a ELSE b

\* what IsSynced() may return to a task that polls n fences
Fences(n) == IF n = 0 THEN {FALSE} ELSE BOOLEAN

\* The headers the component may refuse to free in FreeOMXBuffers: the first
\* input header and the first fake output header, each followed by others.
FreeFailures ==
  IF \/ current_state_change_ = "DESTROYING"
        /\ Head(omx_commands) = <<"OMX_CommandStateSet", "OMX_StateIdle">>
     \/ current_state_change_ = "ERRORING"
        /\ Head(omx_commands) = <<"OMX_CommandStateSet", "OMX_StateInvalid">>
  THEN SUBSET {1, 101}
  ELSE {{}}

\* the state at the start of a task, with the inputs of the task
Task(s, fail, maps, synced) ==
  [s EXCEPT !.omx_fail_next = fail, !.maps_ok = maps, !.egl_synced = synced]

\* ---- actions: tasks posted by the engine callbacks -----------------------

TaskCmdCompleteStateSet ==
  /\ Alive /\ omx_handle /\ omx_commands # <<>>
  /\ Head(omx_commands)[1] = "OMX_CommandStateSet"
  /\ CommandReady(Head(omx_commands))
  /\ \E fail \in Rejections,
        maps \in MapOutcomes(Min(Len(queued_bitstream_buffers_), InputBufferCount)),
        synced \in Fences(Len(queued_picture_buffer_ids_)),
        fails \in FreeFailures :
       Run(EventHandlerCompleteTask(
             Task([CommandCompleted(State) EXCEPT !.free_fails = fails],
                  fail, maps, synced),
             "OMX_EventCmdComplete", "OMX_CommandStateSet",
             Head(omx_commands)[2]))

TaskCmdCompleteFlush ==
  /\ Alive /\ omx_handle /\ omx_commands # <<>>
  /\ Head(omx_commands)[1] = "OMX_CommandFlush"
  /\ CommandReady(Head(omx_commands))
  /\ \E fail \in Rejections :
       Run(EventHandlerCompleteTask(
             Task(CommandCompleted(State), fail, 0, FALSE),
             "OMX_EventCmdComplete", "OMX_CommandFlush", Head(omx_commands)[2]))

TaskCmdCompletePortDisable ==
  /\ Alive /\ omx_handle /\ omx_commands # <<>>
  /\ Head(omx_commands)[1] = "OMX_CommandPortDisable"
  /\ CommandReady(Head(omx_commands))
  /\ \E fail \in Rejections :
       Run(EventHandlerCompleteTask(
             Task(CommandCompleted(State), fail, 0, FALSE),
             "OMX_EventCmdComplete", "OMX_CommandPortDisable", Head(omx_commands)[2]))

TaskCmdCompletePortEnable ==
  /\ Alive /\ omx_handle /\ omx_commands # <<>>
  /\ Head(omx_commands)[1] = "OMX_CommandPortEnable"
  /\ CommandReady(Head(omx_commands))
  /\ \E fail \in Rejections :
       Run(EventHandlerCompleteTask(
             Task(CommandCompleted(State), fail, 0, FALSE),
             "OMX_EventCmdComplete", "OMX_CommandPortEnable", Head(omx_commands)[2]))

\* The component may report an error at any time.
TaskEventError ==
  /\ Alive /\ omx_handle
  /\ \E fail \in Rejections :
       Run(EventHandlerCompleteTask(Task(State, fail, 0, FALSE),
                                    "OMX_EventError", "OMX_ErrorHardware", 0))

\* The component learns the stream dimensions from the first input data.
TaskEventPortSettingsChanged ==
  /\ Alive /\ omx_handle
  /\ omx_state = "OMX_StateExecuting"
  /\ ~omx_settings_changed
  /\ omx_data_seen
  /\ \E fail \in Rejections :
       Run(EventHandlerCompleteTask(
             Task([State EXCEPT !.omx_settings_changed = TRUE], fail, 0, FALSE),
             "OMX_EventPortSettingsChanged",
             "output_port_", "OMX_IndexParamPortDefinition"))

\* EmptyBufferCallback: the component returns its oldest input buffer.
TaskEmptyBufferDone ==
  /\ Alive /\ omx_handle /\ omx_input # <<>>
  /\ \E fail \in Rejections,
        maps \in MapOutcomes(Min(Len(queued_bitstream_buffers_), InputBufferCount)) :
       LET buffer == Head(omx_input) IN
       Run(EmptyBufferDoneTask(
             Task([State EXCEPT !.omx_input = Tail(@),
                                !.omx_eos_pending = @ \/ buffer.eos],
                  fail, maps, FALSE),
             buffer))

\* FillBufferCallback: the component returns its oldest output buffer, with
\* the EOS flag when it answers the EOS input, without it when a command
\* makes it give the buffer back.
TaskFillBufferDone ==
  /\ Alive /\ omx_handle /\ omx_output # <<>>
  /\ \E eos \in BOOLEAN, fail \in Rejections :
       /\ IF eos THEN omx_eos_pending /\ omx_state = "OMX_StateExecuting"
                 ELSE OutputReturnForced
       /\ \E synced \in Fences(IF eos THEN 1 ELSE 0) :
            Run(FillBufferDoneTask(
                  Task([State EXCEPT !.omx_output = Tail(@),
                                     !.omx_eos_pending = IF eos THEN FALSE ELSE @,
                                     !.n_eos_output = IF eos THEN @ + 1 ELSE @],
                       fail, 0, synced),
                  Head(omx_output), eos))

\* The task re-posts itself while component_handle_ is set (no change of
\* state); once it is NULL the task returns and |self| deletes the object.
TaskBusyLoopInDestroying ==
  /\ Alive /\ self_owned
  /\ ~component_handle_
  /\ Apply(BusyLoopInDestroying(State))

\* ---- actions: callbacks of the component to a deleted object --------------

\* While the object exists a callback and the task it posts are one step (the
\* actions above).  The component keeps priv_data after the object was
\* deleted with the handle still allocated: the callback then reads
\* decoder->child_task_runner_ and decoder->weak_this() of freed memory.  The
\* read either finds the old values (the task is posted with an invalidated
\* WeakPtr and does not run) or faults.
OnDeleted(s) ==
  /\ deleted /\ ~crashed /\ omx_handle
  /\ \E fault \in BOOLEAN : Apply([s EXCEPT !.crashed = fault])

EventHandler ==
  /\ omx_commands # <<>>
  /\ CommandReady(Head(omx_commands))
  /\ OnDeleted([State EXCEPT
                  !.omx_commands = Tail(@),
                  !.omx_state = IF Head(omx_commands)[1] = "OMX_CommandStateSet"
                                THEN Head(omx_commands)[2] ELSE @])

EmptyBufferCallback ==
  /\ omx_input # <<>>
  /\ OnDeleted([State EXCEPT !.omx_input = Tail(@)])

FillBufferCallback ==
  /\ omx_output # <<>>
  /\ OutputReturnForced
  /\ OnDeleted([State EXCEPT !.omx_output = Tail(@)])

\* ---- actions: calls of the client ----------------------------------------

ClientInitialize ==
  /\ Alive /\ ~initialize_called
  /\ Apply(Initialize([State EXCEPT !.initialize_called = TRUE]))

ClientDecode ==
  /\ Alive /\ initialize_called /\ ~destroy_called
  /\ next_bitstream_id <= MaxDecodes
  /\ \E fail \in Rejections, maps \in MapOutcomes(1) :
       Run(Decode(Task([State EXCEPT
                          !.next_bitstream_id = @ + 1,
                          !.init_ids = IF current_state_change_ = "INITIALIZING"
                                       THEN @ \cup {next_bitstream_id} ELSE @],
                       fail, maps, FALSE),
                  [id |-> next_bitstream_id, size |-> 1]))

\* The client answers ProvidePictureBuffers.
ClientAssignPictureBuffers ==
  /\ Alive /\ ~destroy_called /\ provide_pending
  /\ \E buffers \in {kNumPictureBuffers - 1, kNumPictureBuffers},
        fail \in Rejections :
       Run(AssignPictureBuffers(
             Task([State EXCEPT !.provide_pending = FALSE, !.assigned = buffers],
                  fail, 0, FALSE),
             buffers))

\* DCHECK_EQ(current_state_change_, NO_TRANSITION); DCHECK_EQ(client_state_,
\* OMX_StateExecuting): the client flushes an initialized, idle decoder.
ClientFlush ==
  /\ Alive /\ ~destroy_called
  /\ current_state_change_ = "NO_TRANSITION"
  /\ client_state_ = "OMX_StateExecuting"
  /\ \E fail \in Rejections : Run(Flush(Task(State, fail, 0, FALSE)))

ClientReset ==
  /\ Alive /\ ~destroy_called
  /\ current_state_change_ = "NO_TRANSITION"
  /\ client_state_ = "OMX_StateExecuting"
  /\ n_resets < MaxResets
  /\ \E fail \in Rejections :
       Run(Reset(Task([State EXCEPT !.n_resets = @ + 1,
                                    !.reset_mark = next_bitstream_id,
                                    !.reset_trace = <<>>],
                      fail, 0, FALSE)))

\* The client returns a picture buffer of those it assigned.
ClientReusePictureBuffer ==
  /\ Alive /\ ~destroy_called
  /\ assigned = kNumPictureBuffers
  /\ n_ReusePictureBuffer < MaxReuses
  /\ \E picture_buffer_id \in ReuseIds, fail \in Rejections, synced \in Fences(1) :
       Run(ReusePictureBuffer(Task(State, fail, 0, synced), picture_buffer_id))

\* The delayed CheckPictureStatus task of a fence runs.
TaskCheckPictureStatus ==
  /\ Alive
  /\ \E i \in 1..Len(picture_syncs_), fail \in Rejections, synced \in Fences(1) :
       Run(CheckPictureStatus(
             Task([State EXCEPT !.picture_syncs_ =
                     SubSeq(@, 1, i - 1) \o SubSeq(@, i + 1, Len(@))],
                  fail, 0, synced),
             picture_syncs_[i]))

\* DCHECK(current_state_change_ == NO_TRANSITION || FLUSHING || RESETTING)
\* after the early return for ERRORING and DESTROYING: the client does not
\* destroy a decoder that is still initializing.
ClientDestroy ==
  /\ Alive /\ initialize_called /\ ~destroy_called
  /\ current_state_change_ # "INITIALIZING"
  /\ \E fail \in Rejections :
       Run(Destroy(Task([State EXCEPT !.destroy_called = TRUE,
                                      !.destroyed_from =
                                         [state |-> current_state_change_,
                                          trace |-> reset_trace,
                                          in |-> input_buffers_at_component_]],
                        fail, 0, FALSE)))

Next ==
  \/ ClientInitialize
  \/ ClientDecode
  \/ ClientAssignPictureBuffers
  \/ ClientFlush
  \/ ClientReset
  \/ ClientDestroy
  \/ ClientReusePictureBuffer
  \/ TaskCheckPictureStatus
  \/ TaskCmdCompleteStateSet
  \/ TaskCmdCompleteFlush
  \/ TaskCmdCompletePortDisable
  \/ TaskCmdCompletePortEnable
  \/ TaskEventError
  \/ TaskEventPortSettingsChanged
  \/ TaskEmptyBufferDone
  \/ TaskFillBufferDone
  \/ TaskBusyLoopInDestroying
  \/ EventHandler
  \/ EmptyBufferCallback
  \/ FillBufferCallback

Spec == Init /\ [][Next]_vars

\* ---- properties ----------------------------------------------------------

\* number of occurrences of x in the sequence q
Count(q, x) == Cardinality({i \in 1..Len(q) : q[i] = x})

\* q is strictly increasing
Increasing(q) == \A i, j \in 1..Len(q) : i < j => q[i] < q[j]

\* no StopOnError and no Destroy so far
NoErrorNoDestroy == n_StopOnError = 0 /\ ~destroy_called

\* The component has nothing left to report: no command to complete, no
\* input buffer to return, no EOS output it can deliver, no dimensions to
\* announce.  Only a further call of the client changes the state.
EngineQuiet ==
  /\ omx_commands = <<>>
  /\ omx_input = <<>>
  /\ ~(omx_eos_pending /\ omx_output # <<>>)
  /\ omx_settings_changed \/ ~omx_data_seen

\* C1: over any sequence of client calls and engine events the client's
\* NotifyError is invoked at most once.
C1_NotifyErrorAtMostOnce == Len(errors_notified) <= 1

\* StopOnError has run a second time after the error was notified.
C1_Witness == Len(errors_notified) = 1 /\ n_StopOnError >= 2

\* the notifications about work progress
WorkNotifications ==
  << n_PictureReady, n_NotifyFlushDone, n_NotifyResetDone, ended,
     n_ProvidePictureBuffers, n_NotifyInitializationComplete >>

Silenced ==
  destroy_called \/ current_state_change_ \in {"ERRORING", "DESTROYING"}

\* C2: once Destroy has returned, or OperationState has become ERRORING or
\* DESTROYING, no step invokes PictureReady, NotifyFlushDone, NotifyResetDone,
\* NotifyEndOfBitstreamBuffer, ProvidePictureBuffers or
\* NotifyInitializationComplete.
C2_SilentAfterDestroyOrError ==
  [][Silenced => WorkNotifications' = WorkNotifications]_vars

\* The input buffers that were at the component at the Destroy call were
\* returned by it after the call (their NotifyEndOfBitstreamBuffer was not
\* delivered).
C2_Witness ==
  /\ Silenced
  /\ ~deleted
  /\ destroyed_from.in > 0
  /\ input_buffers_at_component_ = 0

\* C3: while the engine state is IDLE, EXECUTING or PAUSED and the operation
\* is neither DESTROYING nor ERRORING, the free input headers plus the input
\* headers at the component are input_buffer_count.
C3_InputBufferConservation ==
  (/\ client_state_ \in {"OMX_StateIdle", "OMX_StateExecuting", "OMX_StatePause"}
   /\ current_state_change_ \notin {"DESTROYING", "ERRORING"})
  => Len(free_input_buffers_) + input_buffers_at_component_ = InputBufferCount

\* An input header is at the component and one came back from it before.
C3_Witness ==
  /\ client_state_ = "OMX_StateExecuting"
  /\ current_state_change_ = "NO_TRANSITION"
  /\ input_buffers_at_component_ > 0
  /\ Len(ended) > 0

\* C4: whenever the object has been deleted, every header it registered has
\* been freed at the component and component_handle_ is NULL.
C4_DeletedOnlyWhenFreed ==
  deleted => (omx_buffers = {} /\ ~component_handle_ /\ ~omx_handle)

\* C5: the bitstream buffers passed to Decode while INITIALIZING have been
\* submitted to the component, in the order of their Decode calls, once
\* initialization is complete and the component has nothing left to report
\* (no further call of the client is needed).
C5_InitQueueDrained ==
  (/\ n_NotifyInitializationComplete = 1
   /\ NoErrorNoDestroy
   /\ EngineQuiet)
  => /\ \A id \in init_ids : Count(submitted, id) = 1
     /\ Increasing(SelectSeq(submitted, LAMBDA x : x \in init_ids))

\* C6: without Destroy and error, every bitstream buffer passed to Decode has
\* had its NotifyEndOfBitstreamBuffer, exactly once, when the component has
\* returned every input buffer and has nothing left to report.
C6_EveryDecodeEnded ==
  /\ \A id \in 1..MaxDecodes : Count(ended, id) <= 1
  /\ (/\ NoErrorNoDestroy
      /\ EngineQuiet)
     => \A id \in 1..(next_bitstream_id - 1) : Count(ended, id) = 1

\* C7: without Destroy and error, once the component has delivered the
\* EOS-flagged output buffer of a Flush, NotifyFlushDone has been invoked
\* exactly once and the operation is no longer FLUSHING.
C7_FlushDoneOnEOS ==
  /\ client_ => n_NotifyFlushDone <= Count(submitted, kEOSTimeStamp)
  /\ (NoErrorNoDestroy /\ n_eos_output >= 1)
     => (n_NotifyFlushDone = 1 /\ current_state_change_ # "FLUSHING")

\* ids of the bitstream buffers in a list
Ids(buffers) == [i \in 1..Len(buffers) |-> buffers[i].id]

\* C8 (as stated): when NotifyResetDone is invoked, both at-component
\* counters are 0 and no bitstream buffer passed to Decode after the Reset
\* call has been submitted yet.
C8_Original ==
  reset_done.valid =>
    /\ reset_done.in = 0
    /\ reset_done.out = 0
    /\ \A i \in 1..reset_done.nsub : submitted[i] < reset_done.mark

\* C8 (amended): when NotifyResetDone is invoked, output_buffers_at_component_
\* is 0 and input_buffers_at_component_ is the number of queued bitstream
\* buffers the EXECUTING handler has just submitted, which are the first
\* min(queue length, input_buffer_count) queued buffers in queue order; no
\* buffer passed to Decode after the Reset call was submitted before that
\* handler ran.
C8_DrainBeforeResetDone ==
  reset_done.valid =>
    LET n == reset_done.nsub - reset_done.nsub_entry
        queued == Ids(reset_done.queued_entry)
    IN /\ reset_done.out = 0
       /\ reset_done.in = n
       /\ n = IF Len(queued) < InputBufferCount THEN Len(queued)
              ELSE InputBufferCount
       /\ SubSeq(submitted, reset_done.nsub_entry + 1, reset_done.nsub)
            = SubSeq(queued, 1, n)
       /\ Increasing(queued)
       /\ \A i \in 1..reset_done.nsub_entry : submitted[i] < reset_done.mark

\* NotifyResetDone was invoked right after the handler submitted a buffer
\* that the client had passed to Decode during the Reset.
C8_Witness ==
  /\ reset_done.valid
  /\ reset_done.in > 0
  /\ \E i \in 1..reset_done.nsub : submitted[i] >= reset_done.mark

\* C9: NotifyResetDone is invoked only after the PAUSED acknowledgement,
\* FLUSH_DONE of the input port, FLUSH_DONE of the output port and the
\* EXECUTING acknowledgement were processed, in this order, since the Reset
\* call; and at most once per Reset.
C9_ResetDoneAfterFlushes ==
  /\ n_NotifyResetDone <= n_resets
  /\ reset_done.valid =>
       reset_done.trace = << "OMX_StatePause", "input_port_", "output_port_",
                             "OMX_StateExecuting" >>

\* A Reset has completed and NotifyResetDone was invoked.
C9_Witness == reset_done.valid /\ n_NotifyResetDone = 1 /\ n_resets = 1

\* C10: after NotifyResetDone, no bitstream buffer that was passed to Decode
\* before the Reset call is submitted to the component or reported by
\* NotifyEndOfBitstreamBuffer.
C10_NoStaleBufferAfterResetDone ==
  reset_done.valid =>
    /\ \A i \in (reset_done.nsub + 1)..Len(submitted) :
         submitted[i] = kEOSTimeStamp \/ submitted[i] >= reset_done.mark
    /\ \A i \in (reset_done.nend + 1)..Len(ended) : ended[i] >= reset_done.mark

\* The component or a posted task can still take a step of the teardown.
EngineCanStep ==
  \/ omx_handle /\ omx_commands # <<>> /\ CommandReady(Head(omx_commands))
  \/ omx_handle /\ omx_input # <<>>
  \/ omx_handle /\ omx_output # <<>> /\ OutputReturnForced
  \/ self_owned /\ ~component_handle_ /\ ~deleted

\* every header was freed, the handle was freed and the object was deleted
TornDown == deleted /\ omx_buffers = {} /\ ~omx_handle /\ ~component_handle_

\* C11: after a Destroy called while FLUSHING, NotifyFlushDone and
\* PictureReady are not invoked any more; and, when the component has
\* rejected no call and has acknowledged every state it was asked for (no
\* step is left to take), every header is freed, the handle is freed and the
\* object is deleted.
C11_DestroyDuringFlush ==
  /\ []((/\ destroyed_from.state = "FLUSHING"
         /\ ~omx_rejected
         /\ ~EngineCanStep) => TornDown)
  /\ [][destroyed_from.state = "FLUSHING"
          => /\ n_NotifyFlushDone' = n_NotifyFlushDone
             /\ n_PictureReady' = n_PictureReady]_vars

\* Destroy was called during the Flush, before NotifyFlushDone; the teardown
\* has completed.
C11_Witness ==
  /\ destroyed_from.state = "FLUSHING"
  /\ n_NotifyFlushDone = 0
  /\ ~omx_rejected
  /\ TornDown

\* the fields of the object
AdapterFields ==
  << current_state_change_, client_state_, component_handle_, init_begun_, client_,
     free_input_buffers_, input_buffers_at_component_, output_buffers_at_component_,
     fake_output_buffers_, pictures_, queued_bitstream_buffers_,
     queued_picture_buffer_ids_, picture_syncs_, deleted, self_owned, crashed >>

\* acknowledgements that belong to a Reset
ResetAcks ==
  { <<"OMX_CommandStateSet", "OMX_StatePause">>,
    <<"OMX_CommandStateSet", "OMX_StateExecuting">>,
    <<"OMX_CommandFlush", "input_port_">>,
    <<"OMX_CommandFlush", "output_port_">> }

\* this step runs the task of the oldest command's acknowledgement, which
\* belongs to the Reset that Destroy interrupted
LateResetAck ==
  /\ destroyed_from.state = "RESETTING"
  /\ Alive
  /\ omx_commands # <<>>
  /\ Head(omx_commands) \in ResetAcks
  /\ Len(omx_commands') < Len(omx_commands)

\* C12: after a Destroy called while RESETTING, the acknowledgements of the
\* Reset (PAUSED, EXECUTING, FLUSH_DONE of either port) change no field of
\* the object and send no command, NotifyResetDone is not invoked; and, when
\* the component has rejected no call and no step is left to take, every
\* header is freed, the handle is freed and the object is deleted.
C12_DestroyDuringReset ==
  /\ []((/\ destroyed_from.state = "RESETTING"
         /\ ~omx_rejected
         /\ ~EngineCanStep) => TornDown)
  /\ [][/\ destroyed_from.state = "RESETTING"
           => n_NotifyResetDone' = n_NotifyResetDone
        /\ LateResetAck
           => /\ AdapterFields' = AdapterFields
              /\ omx_commands' = Tail(omx_commands)]_vars

\* Destroy was called after the output port was flushed and the resume was
\* requested; the EXECUTING acknowledgement came late and the teardown has
\* completed.
C12_Witness ==
  /\ destroyed_from.state = "RESETTING"
  /\ destroyed_from.trace = << "OMX_StatePause", "input_port_", "output_port_" >>
  /\ reset_trace = << "OMX_StatePause", "input_port_", "output_port_",
                      "OMX_StateExecuting", "OMX_StateIdle", "OMX_StateLoaded" >>
  /\ n_NotifyResetDone = 0
  /\ TornDown

\* the cases of DispatchStateReached that are not NOTREACHED()
HandledPairs ==
  { << "INITIALIZING", "OMX_StateIdle" >>, << "INITIALIZING", "OMX_StateExecuting" >>,
    << "RESETTING", "OMX_StatePause" >>, << "RESETTING", "OMX_StateExecuting" >>,
    << "DESTROYING", "OMX_StatePause" >>, << "DESTROYING", "OMX_StateExecuting" >>,
    << "DESTROYING", "OMX_StateIdle" >>, << "DESTROYING", "OMX_StateLoaded" >>,
    << "ERRORING", "OMX_StateInvalid" >> }

\* C13: no step that runs the task of a state-set acknowledgement (the
\* oldest command is a state-set and reset_trace grows) dispatches a pair
\* (current_state_change_, reached) that is a NOTREACHED() branch of
\* DispatchStateReached.
C13_NoUnexpectedState ==
  [][(/\ Alive
      /\ omx_commands # <<>>
      /\ Head(omx_commands)[1] = "OMX_CommandStateSet"
      /\ Len(reset_trace') = Len(reset_trace) + 1)
     => << current_state_change_, Head(omx_commands)[2] >> \in HandledPairs]_vars

\* C14: QueuePictureBuffer, which hands the picture's header to
\* OMX_FillThisBuffer at most once, is entered only when a fence has reported
\* signaled, once per such fence; every ReusePictureBuffer call whose fence
\* has not reported signaled has exactly one CheckPictureStatus task posted.
C14_FillAfterFence ==
  /\ n_QueuePictureBuffer = n_synced
  /\ n_FillThisBuffer <= n_QueuePictureBuffer
  /\ n_synced + Len(picture_syncs_) = n_ReusePictureBuffer

\* The fence of a ReusePictureBuffer call has reported signaled and
\* QueuePictureBuffer has run for it (the id is not in pictures_).
C14_Witness ==
  /\ n_ReusePictureBuffer = 1
  /\ n_synced = 1
  /\ n_QueuePictureBuffer = 1
  /\ picture_syncs_ = <<>>
  /\ errors_notified = << "INVALID_ARGUMENT" >>

\* C16: a call of AssignPictureBuffers with a number of buffers other than
\* kNumPictureBuffers, made while CanFillBuffer(), invokes NotifyError
\* (INVALID_ARGUMENT) as the only NotifyError, registers no header, sends
\* only the request of OMX_StateInvalid and leaves ERRORING.
C16_WrongCount ==
  [][(/\ assigned = 0
      /\ assigned' \notin {0, kNumPictureBuffers}
      /\ CanFillBuffer(State))
     => /\ errors_notified' = << "INVALID_ARGUMENT" >>
        /\ omx_buffers' = omx_buffers
        /\ pictures_' = pictures_
        /\ omx_commands' =
             Append(omx_commands, <<"OMX_CommandStateSet", "OMX_StateInvalid">>)
        /\ current_state_change_' = "ERRORING"]_vars

\* AssignPictureBuffers was called with a wrong number of buffers.
C16_Witness ==
  /\ assigned \notin {0, kNumPictureBuffers}
  /\ errors_notified = << "INVALID_ARGUMENT" >>
  /\ current_state_change_ = "ERRORING"

\* OMX_EventError was handled while EXECUTING and neither DESTROYING nor
\* ERRORING: initialization had completed, no Reset was called (the state
\* was EXECUTING), no call was rejected and no call of the client failed,
\* and StopOnError ran before any Destroy (the first NotifyError is its).
ErrorWhileExecuting ==
  /\ n_NotifyInitializationComplete = 1
  /\ n_resets = 0
  /\ ~omx_rejected
  /\ Len(errors_notified) >= 1
  /\ errors_notified[1] = "PLATFORM_FAILURE"

\* C17: after an OMX_EventError handled while EXECUTING (not DESTROYING or
\* ERRORING) exactly one NotifyError(PLATFORM_FAILURE) has been invoked, and
\* once the handle is released or the object is deleted every header has
\* been freed and the handle has been freed.
C17_ErrorWhileExecuting ==
  ErrorWhileExecuting =>
    /\ errors_notified = << "PLATFORM_FAILURE" >>
    /\ (deleted \/ ~component_handle_) => (omx_buffers = {} /\ ~omx_handle)

ErrorKinds ==
  {"ILLEGAL_STATE", "INVALID_ARGUMENT", "UNREADABLE_INPUT", "PLATFORM_FAILURE"}

\* the state without the count of StopOnError calls
Observed(s) == [s EXCEPT !.n_StopOnError = 0]

\* C18: in every reachable state of a live object, StopOnError called a
\* second time (with any error) after a first call changes nothing: no
\* field, no command sent, no notification.
C18_StopOnErrorIdempotent ==
  Alive =>
    \A first \in ErrorKinds :
       LET once == StopOnError(State, first) IN
       \A second \in ErrorKinds :
          Observed(StopOnError(once, second)) = Observed(once)

\* StopOnError has run twice and OMX_StateInvalid was requested once.
C18_Witness ==
  /\ n_StopOnError >= 2
  /\ current_state_change_ = "ERRORING"
  /\ Count(omx_commands, <<"OMX_CommandStateSet", "OMX_StateInvalid">>) = 1

\* number of the populations that hold the header h
Populations(h) ==
  Cardinality(
    {n \in {"free_input", "at_engine", "pictures", "fake_output"} :
       CASE n = "free_input" ->
              \E i \in 1..Len(free_input_buffers_) : free_input_buffers_[i] = h
         [] n = "at_engine" -> \E i \in 1..Len(omx_input) : omx_input[i].hdr = h
         [] n = "pictures" -> h \in {PictureHeader(p) : p \in pictures_}
         [] n = "fake_output" -> h \in fake_output_buffers_})

\* C19: every header that is registered at the component and not freed is in
\* exactly one of free_input_buffers_, the input buffers at the component,
\* pictures_ and fake_output_buffers_.
C19_HeaderInOnePopulation ==
  (Alive /\ component_handle_) => \A h \in omx_buffers : Populations(h) = 1

\* C20: a Destroy called while ERRORING or DESTROYING changes no field of
\* the object and does not delete it.
C20_DestroyWhileTearingDown ==
  [][(/\ ~destroy_called
      /\ destroy_called'
      /\ current_state_change_ \in {"ERRORING", "DESTROYING"})
     => /\ ~deleted'
        /\ AdapterFields' = AdapterFields]_vars

\* the step runs the task of a state-set acknowledgement
StateSetAck ==
  /\ Alive
  /\ omx_commands # <<>>
  /\ Head(omx_commands)[1] = "OMX_CommandStateSet"
  /\ Len(reset_trace') = Len(reset_trace) + 1

\* C21: right after the task of a state-set acknowledgement for state s,
\* client_state_ is s (or OMX_StateMax when the acknowledgement completed the
\* teardown), whatever current_state_change_ is; and client_state_ changes in
\* no other step (Initialize sets the first value, OMX_StateLoaded).
C21_MirrorFollowsAcks ==
  [][/\ StateSetAck
          => \/ client_state_' = Head(omx_commands)[2]
             \/ client_state_' = "OMX_StateMax" /\ ~component_handle_'
     /\ client_state_' # client_state_ => (StateSetAck \/ ~initialize_called)]_vars

\* the step runs the task of an EmptyBufferCallback: the component gives back
\* its oldest input buffer
ReturnsInput ==
  /\ Alive
  /\ omx_input # <<>>
  /\ omx_buffers' = omx_buffers
  /\ omx_handle'
  /\ omx_input' = <<>> \/ omx_input'[1] # omx_input[1]

\* C22: after every input buffer the component returns (EOS or not), while
\* the operation is NO_TRANSITION or FLUSHING, the queued bitstream buffers
\* have been re-issued: none is left queued while a free input header
\* exists; and in these operations no bitstream buffer is queued while a
\* header is free and the component holds no input buffer.
C22_DrainAfterEveryReturn ==
  /\ [][(/\ ReturnsInput
         /\ current_state_change_' \in {"NO_TRANSITION", "FLUSHING"})
        => (queued_bitstream_buffers_' = <<>> \/ free_input_buffers_' = <<>>)]_vars
  /\ []((/\ current_state_change_ \in {"NO_TRANSITION", "FLUSHING"}
         /\ client_state_ = "OMX_StateExecuting"
         /\ queued_bitstream_buffers_ # <<>>
         /\ free_input_buffers_ # <<>>)
        => input_buffers_at_component_ > 0)

\* C23: in a step taken while RESETTING (other than the EXECUTING
\* acknowledgement that ends the Reset) no input buffer and no output buffer
\* is handed to the component; a Decode call appends its bitstream buffer to
\* queued_bitstream_buffers_; and every picture that reaches
\* QueuePictureBuffer is appended to queued_picture_buffer_ids_.
C23_NoEngineCallsWhileResetting ==
  [][(/\ current_state_change_ = "RESETTING"
      /\ ~(StateSetAck /\ Head(omx_commands)[2] = "OMX_StateExecuting"))
     => /\ Len(omx_input') <= Len(omx_input)
        /\ Len(omx_output') <= Len(omx_output)
        /\ n_FillThisBuffer' = n_FillThisBuffer
        /\ Len(submitted') <= Len(submitted)
        /\ next_bitstream_id' # next_bitstream_id
             => queued_bitstream_buffers_' =
                  Append(queued_bitstream_buffers_,
                         [id |-> next_bitstream_id, size |-> 1])
        /\ Len(queued_picture_buffer_ids_') - Len(queued_picture_buffer_ids_)
             = n_QueuePictureBuffer' - n_QueuePictureBuffer]_vars

\* During a Reset a Decode call was queued although an input header is free,
\* and a picture whose fence was signaled was queued.
C23_Witness ==
  /\ current_state_change_ = "RESETTING"
  /\ queued_bitstream_buffers_ # <<>>
  /\ free_input_buffers_ # <<>>
  /\ queued_picture_buffer_ids_ # <<>>

\* the step runs the task of the FLUSH_DONE event of a port
FlushDone(port) ==
  /\ Alive
  /\ omx_commands # <<>>
  /\ Head(omx_commands) = << "OMX_CommandFlush", port >>
  /\ Len(reset_trace') = Len(reset_trace) + 1

\* C24: when the task of FLUSH_DONE of the input port runs while RESETTING,
\* input_buffers_at_component_ is 0; when the task of FLUSH_DONE of the
\* output port runs while RESETTING, output_buffers_at_component_ is 0.
C24_CountersZeroAtFlushDone ==
  [][/\ (FlushDone("input_port_") /\ current_state_change_ = "RESETTING")
          => input_buffers_at_component_ = 0
     /\ (FlushDone("output_port_") /\ current_state_change_ = "RESETTING")
          => output_buffers_at_component_ = 0]_vars

\* Both ports were flushed during a Reset that was called after a bitstream
\* buffer had been submitted, and a Decode call came in during the Reset.
C24_Witness ==
  /\ current_state_change_ = "RESETTING"
  /\ reset_trace = << "OMX_StatePause", "input_port_", "output_port_" >>
  /\ submitted # <<>>
  /\ queued_bitstream_buffers_ # <<>>

\* C25: a step taken while DESTROYING leaves the operation DESTROYING (or
\* ends it with the LOADED acknowledgement), notifies no error and requests
\* no transition to OMX_StateInvalid; and the teardown that Destroy started
\* completes once the component has nothing left to do.
C25_ErrorsAbsorbedInDestroying ==
  /\ [][current_state_change_ = "DESTROYING"
          => /\ current_state_change_' \in {"DESTROYING", "NO_TRANSITION"}
             /\ errors_notified' = errors_notified
             /\ \A i \in 1..Len(omx_commands') :
                  omx_commands'[i] # << "OMX_CommandStateSet", "OMX_StateInvalid" >>]_vars
  /\ []((/\ destroy_called
         /\ destroyed_from.state \in {"NO_TRANSITION", "FLUSHING", "RESETTING"}
         /\ ~EngineCanStep) => TornDown)

\* the step is an AssignPictureBuffers call with kNumPictureBuffers buffers
\* that sent PORT_ENABLE (the call was accepted)
AssignAccepted ==
  /\ provide_pending /\ ~provide_pending'
  /\ assigned' = kNumPictureBuffers
  /\ omx_commands' = Append(omx_commands,
                            << "OMX_CommandPortEnable", "output_port_" >>)

\* the step runs the task of the PORT_ENABLE acknowledgement
PortEnableAck ==
  /\ Alive
  /\ omx_commands # <<>>
  /\ Head(omx_commands) = << "OMX_CommandPortEnable", "output_port_" >>
  /\ omx_commands' = Tail(omx_commands)

\* C26: when AssignPictureBuffers is accepted with kNumPictureBuffers
\* buffers, pictures_ has kNumPictureBuffers entries, each with a header
\* registered at the component; and the task of the following PORT_ENABLE
\* acknowledgement, when it fills buffers, hands kNumPictureBuffers headers to
\* OMX_FillThisBuffer.
C26_PicturesRegistered ==
  [][/\ AssignAccepted
          => /\ Cardinality(pictures_') = kNumPictureBuffers
             /\ {PictureHeader(p) : p \in pictures_'} \subseteq omx_buffers'
     /\ (/\ PortEnableAck
         /\ assigned = kNumPictureBuffers
         /\ current_state_change_ \in {"NO_TRANSITION", "FLUSHING"}
         /\ current_state_change_' = current_state_change_)
          => Len(omx_output') = Len(omx_output) + kNumPictureBuffers]_vars

\* C27: an AssignPictureBuffers call with kNumPictureBuffers buffers that
\* answers ProvidePictureBuffers, made when no Destroy and no error has
\* occurred and not rejected by the component, sends PORT_ENABLE for the
\* output port, whatever Flush or Reset is in progress.
C27_AssignEnablesPort ==
  [][(/\ provide_pending /\ ~provide_pending'
      /\ assigned' = kNumPictureBuffers
      /\ NoErrorNoDestroy
      /\ ~omx_rejected')
     => omx_commands' = Append(omx_commands,
                               << "OMX_CommandPortEnable", "output_port_" >>)]_vars

\* C28: outside the teardown (DESTROYING, ERRORING) a fake output buffer
\* leaves fake_output_buffers_ only after the component has reported
\* port-settings-changed; and no fake buffer is left when AssignPictureBuffers
\* is accepted.
C28_FakeBuffersKeptUntilSettingsChanged ==
  [][/\ (/\ current_state_change_ \notin {"DESTROYING", "ERRORING"}
         /\ fake_output_buffers_' # fake_output_buffers_
         /\ fake_output_buffers_ # {})
          => omx_settings_changed
     /\ AssignAccepted => fake_output_buffers_ = {}]_vars

\* C29: NotifyInitializationComplete is invoked at most once; the step that
\* invokes it is the acknowledgement of OMX_StateExecuting while INITIALIZING,
\* taken after the acknowledgement of OMX_StateIdle, and it leaves
\* current_state_change_ = NO_TRANSITION, client_state_ = OMX_StateExecuting
\* and every fake output buffer at the component; while INITIALIZING,
\* OMX_StateExecuting is requested only by the step that takes the
\* acknowledgement of OMX_StateIdle.
C29_InitCompleteOnceAfterExecuting ==
  /\ [](n_NotifyInitializationComplete <= 1)
  /\ [][/\ n_NotifyInitializationComplete' # n_NotifyInitializationComplete
            => /\ StateSetAck
               /\ Head(omx_commands) = <<"OMX_CommandStateSet", "OMX_StateExecuting">>
               /\ current_state_change_ = "INITIALIZING"
               /\ client_state_ = "OMX_StateIdle"
               /\ current_state_change_' = "NO_TRANSITION"
               /\ client_state_' = "OMX_StateExecuting"
               /\ Cardinality(fake_output_buffers_') = kNumPictureBuffers
               /\ \A b \in fake_output_buffers_' :
                    \E i \in 1..Len(omx_output') : omx_output'[i] = b
               /\ output_buffers_at_component_' = kNumPictureBuffers
        /\ (/\ current_state_change_ = "INITIALIZING"
            /\ \E i \in 1..Len(omx_commands') :
                 omx_commands'[i] = <<"OMX_CommandStateSet", "OMX_StateExecuting">>
            /\ \A i \in 1..Len(omx_commands) :
                 omx_commands[i] # <<"OMX_CommandStateSet", "OMX_StateExecuting">>)
            => /\ StateSetAck
               /\ Head(omx_commands) = <<"OMX_CommandStateSet", "OMX_StateIdle">>
               /\ client_state_ = "OMX_StateLoaded"
               /\ client_state_' = "OMX_StateIdle"]_vars

\* Initialization has completed and the component holds the fake buffers.
C29_Witness ==
  /\ n_NotifyInitializationComplete = 1
  /\ current_state_change_ = "NO_TRANSITION"
  /\ client_state_ = "OMX_StateExecuting"
  /\ Len(omx_output) = kNumPictureBuffers
  /\ \A b \in fake_output_buffers_ : \E i \in 1..Len(omx_output) : omx_output[i] = b
  /\ Cardinality(fake_output_buffers_) = kNumPictureBuffers

ToFreeSeq ==
  free_input_buffers_ \o SeqOfSet({PictureHeader(p) : p \in pictures_})
                      \o SeqOfSet(fake_output_buffers_)

ToFree == {ToFreeSeq[i] : i \in 1..Len(ToFreeSeq)}

\* the headers whose OMX_FreeBuffer can fail in a run of FreeOMXBuffers: those
\* of FreeFailures and, when the first call of the task fails, the first one
MayFailToFree == {1, 101} \cup {ToFreeSeq[i] : i \in 1..Min(1, Len(ToFreeSeq))}

\* The step runs FreeOMXBuffers (OnReachedIdleInDestroying or
\* OnReachedInvalidInErroring) and a header it had to free is still registered
\* at the component: its OMX_FreeBuffer failed.
FreeFailed ==
  /\ StateSetAck
  /\ \/ /\ current_state_change_ = "DESTROYING"
        /\ Head(omx_commands)[2] = "OMX_StateIdle"
     \/ /\ current_state_change_ = "ERRORING"
        /\ Head(omx_commands)[2] = "OMX_StateInvalid"
  /\ omx_buffers' \cap ToFree # {}

\* C31: when an OMX_FreeBuffer of FreeOMXBuffers fails, the headers whose
\* free did not fail are freed, free_input_buffers_, pictures_,
\* fake_output_buffers_ and queued_picture_buffer_ids_ end empty, one
\* PLATFORM_FAILURE is reported to the client, and the teardown goes on: the
\* handle is freed in the step or the component can complete the next command
\* of the teardown.
C31_FreeFailureTolerated ==
  [][FreeFailed
       => /\ omx_buffers' \cap ToFree \subseteq MayFailToFree
          /\ free_input_buffers_' = <<>>
          /\ pictures_' = {}
          /\ fake_output_buffers_' = {}
          /\ queued_picture_buffer_ids_' = <<>>
          /\ errors_notified' = Append(errors_notified, "PLATFORM_FAILURE")
          /\ \/ ~omx_handle'
             \/ omx_commands' # <<>> /\ CommandReady(Head(omx_commands))']_vars

\* nTimeStamp under which a bitstream buffer is submitted
TimeStamp(bitstream_buffer) ==
  IF bitstream_buffer.id = -1 /\ bitstream_buffer.size = 0
  THEN kEOSTimeStamp ELSE bitstream_buffer.id

\* what was submitted to the component, followed by what is queued for it
SubmissionOrder ==
  submitted \o [i \in 1..Len(queued_bitstream_buffers_) |->
                  TimeStamp(queued_bitstream_buffers_[i])]

\* C32: while the client is attached, the bitstream buffers submitted to the
\* component followed by the queued ones are the buffers of the Decode and
\* Flush calls in the order of the calls: a call adds its buffer at the end,
\* and every other step only moves buffers from the head of the queue to the
\* end of the submitted ones.
C32_SubmittedInCallOrder ==
  [][client_'
       => \/ SubmissionOrder' = SubmissionOrder
          \/ /\ next_bitstream_id' # next_bitstream_id
             /\ SubmissionOrder' = Append(SubmissionOrder, next_bitstream_id)
          \/ /\ current_state_change_ = "NO_TRANSITION"
             /\ current_state_change_' = "FLUSHING"
             /\ SubmissionOrder' = Append(SubmissionOrder, kEOSTimeStamp)]_vars

\* A drain ran out of free input buffers: a queued buffer was submitted and
\* the EOS buffer behind it is queued again.
C32_Witness ==
  /\ client_
  /\ current_state_change_ = "FLUSHING"
  /\ Len(submitted) = 2
  /\ Len(ended) = 1
  /\ queued_bitstream_buffers_ = <<EOSBuffer>>
  /\ free_input_buffers_ = <<>>

\* number of OMX_SendCommand(OMX_CommandStateSet, OMX_StateInvalid) calls made
\* between the state s and the state r of the same task, the rejected one
\* included
InvalidAttempts(s, r) ==
  Count(r.omx_commands, <<"OMX_CommandStateSet", "OMX_StateInvalid">>)
    - Count(s.omx_commands, <<"OMX_CommandStateSet", "OMX_StateInvalid">>)
    + (IF s.omx_fail_next /\ ~r.omx_fail_next THEN 1 ELSE 0)

\* C34: in every reachable state of a live object that holds the handle of
\* the component, StopOnError called with any error, the component rejecting
\* its OMX_SendCommand or not, returns with current_state_change_ = ERRORING
\* after at most one OMX_SendCommand(OMX_CommandStateSet, OMX_StateInvalid).
C34_StopOnErrorTerminates ==
  (Alive /\ component_handle_) =>
    \A error \in ErrorKinds, fail \in Rejections :
       LET s == Task(State, fail, 0, FALSE)
           r == StopOnError(s, error)
       IN /\ r.current_state_change_ = "ERRORING"
          /\ InvalidAttempts(s, r) <= 1

====
